---- MODULE Spec2Model ----
(***************************************************************************)
(* MangaDownloader (src/downloader.py): the download pipeline, one batch   *)
(* per chapter, one asyncio task per page, mirrors tried in order, the     *)
(* connection pool of the batch's ClientSession, and asyncio.gather.       *)
(*                                                                         *)
(* One action is one atomic section of the event loop: the code between    *)
(* two awaits of a coroutine.  In download_ the only await is the fetch,   *)
(* so the handling of a response, the write of the file and the request    *)
(* for the next mirror are one step.                                       *)
(***************************************************************************)
EXTENDS Integers, Sequences, FiniteSets, TLC

\* Size of the catalog and of the environment explored.
NumChapters == 2
NumPages == 2
NumMirrors == 2
MaxRequests == 2
MaxOld == 1
MaxWriteFailures == 1

Chapters == 1..NumChapters
Pages == 0..(NumPages - 1)
Mirrors == 1..NumMirrors

VARIABLES
    number,      \* chapter -> chapter['number'] of the catalog
    maxreq,      \* max_requests, the limit of the TCPConnector
    fs,          \* path -> content of the file, Absent when there is none
    run,         \* "first" or "second" run of the program
    chap,        \* index in self.chapters of the last chapter begun, 0: none
    dl,          \* the _download call: idle, running, returned, raised
    session,     \* the ClientSession of the batch: none, open, closed
    works,       \* page -> mirror -> whether the mirror serves the page
    st,          \* page -> state of its download_ task
    exceptions,  \* page -> the exceptions list of its download_ task
    attempts,    \* page -> urls passed to download__, in call order
    writes,      \* page -> number of times the target was opened and written
    wfail,       \* write failures of the storage during this batch
    outer,       \* the exception set on gather's future, NoExc when none
    fsRun1,      \* the files as the first run left them
    run1ok,      \* whether the first run returned normally
    prev         \* how the first run ended: its last chapter and its tasks

vars == <<number, maxreq, fs, run, chap, dl, session, works, st, exceptions,
          attempts, writes, wfail, outer, fsRun1, run1ok, prev>>

NoExc == [target |-> <<0, 0>>, exceptions |-> <<>>]

Paths == Chapters \X Pages

\* s + '/' + info['img']['url'] + p['u']: one url per server and page.
Url(c, p, m) == <<c, p, m>>

\* path / chapter['number'] / f"{i}.jpg"
Target(c, p) == <<number[c], p>>

\* Contents of a file: absent, there before the program ran, the body a
\* mirror serves (it names its url), or cut short by a failed write.
Absent == <<"none">>
Old == <<"old">>
Partial == <<"partial">>
Body(url) == <<"body">> \o url
EmptyFile == <<"empty">>

\* What a mirror answers to the GET: an error (a failing status, a broken
\* connection), a response with an empty body, or the body of the page.  A
\* mirror that serves the page answers with its body.
Answers(p, m) == IF works[p][m] THEN {"body"} ELSE {"error", "empty"}

\* download__: response.raise_for_status(), and if not resp: raise.
\* RejectedStatusOnly is download__ without the check of the body.
RejectedStatusOnly(answer) == answer = "error"
Rejected(answer) == answer \in {"error", "empty"}
ErrorOf(answer) == IF answer = "error" THEN "HTTPError" ELSE "Empty"

\* What download__ returns, which is what f.write(page) writes.
Page(url, answer) == IF answer = "body" THEN Body(url) ELSE EmptyFile

\* to_path.exists().  ExistsNever is the check left out: no file is ever
\* found.  ExistsComplete is a check that validates the content and does not
\* count a file cut short.
ExistsNever(path) == FALSE
ExistsComplete(path) == fs[path] \notin {Absent, Partial}
Exists(path) == fs[path] # Absent

\* urls[i] of the task of page p, and the position of the for loop.
Sources(p) == [m \in Mirrors |-> Url(chap, p, m)]
Cur(p) == Len(exceptions[p]) + 1

\* page = await download__(url): the loop requests one url and waits for it.
\* RequestRest is a loop that starts the fetch of every remaining url at
\* once.
RequestRest(p, i) == SubSeq(Sources(p), i, NumMirrors)
Request(p, i) == <<Sources(p)[i]>>

InFlight == {p \in Pages : st[p] = "inflight"}
Active == {p \in Pages : st[p] \in {"created", "waiting", "inflight"}}
Terminal == {"Skipped", "Succeeded", "Failed"}

\* TCPConnector(limit=max_requests): a connection is free.
\* HasFreeConnectionUnlimited is a connector built without the limit.
HasFreeConnectionUnlimited == TRUE
HasFreeConnection == Cardinality(InFlight) < maxreq

NoItems == [p \in Pages |-> "none"]

\* The answers of the mirror being fetched that download__ returns.
Returned(p) == {a \in Answers(p, Cur(p)) : ~Rejected(a)}

Init ==
    /\ number \in {f \in [Chapters -> Chapters] : \A c \in Chapters : f[c] <= c}
    /\ maxreq \in 1..MaxRequests
    /\ fs \in {f \in [Paths -> {Absent, Old}] :
                  Cardinality({x \in Paths : f[x] = Old}) <= MaxOld}
    /\ run = "first"
    /\ chap = 0
    /\ dl = "idle"
    /\ session = "none"
    /\ works = [p \in Pages |-> [m \in Mirrors |-> FALSE]]
    /\ st = NoItems
    /\ exceptions = [p \in Pages |-> <<>>]
    /\ attempts = [p \in Pages |-> <<>>]
    /\ writes = [p \in Pages |-> 0]
    /\ wfail = 0
    /\ outer = NoExc
    /\ fsRun1 = [x \in Paths |-> Absent]
    /\ run1ok = FALSE
    /\ prev = [chap |-> 0, st |-> NoItems, end |-> "none"]

\* for chapter in self.chapters: await download_chapter(chapter).  The loop
\* reaches the next chapter when download begins and when the awaited
\* download_chapter returned.  LoopNotAwaiting is the loop starting each
\* download_chapter without awaiting it; LoopIgnoringFailure is the loop
\* catching the failure of a chapter and going on.
LoopNotAwaiting == dl \in {"idle", "returned", "running"}
LoopIgnoringFailure == dl \in {"idle", "returned", "raised"}
LoopAtNextChapter == dl \in {"idle", "returned"}

\* download_chapter up to the await of gather: the pages are resolved, the
\* items built, the session opened and one task created per item.
DownloadChapter ==
    /\ LoopAtNextChapter
    /\ chap < NumChapters
    /\ chap' = chap + 1
    /\ works' \in [Pages -> [Mirrors -> BOOLEAN]]
    /\ session' = "open"
    /\ st' = [p \in Pages |-> "created"]
    /\ exceptions' = [p \in Pages |-> <<>>]
    /\ attempts' = [p \in Pages |-> <<>>]
    /\ writes' = [p \in Pages |-> 0]
    /\ wfail' = 0
    /\ outer' = NoExc
    /\ dl' = "running"
    /\ UNCHANGED <<number, maxreq, fs, run, fsRun1, run1ok,
                   prev>>

\* First step of a download_ task, in the order the tasks were created: the
\* existence check, then the request for the first mirror.
Start(p) ==
    /\ dl = "running"
    /\ st[p] = "created"
    /\ \A q \in Pages : q < p => st[q] # "created"
    /\ IF Exists(Target(chap, p))
       THEN /\ st' = [st EXCEPT ![p] = "Skipped"]
            /\ UNCHANGED attempts
       ELSE /\ st' = [st EXCEPT ![p] = "waiting"]
            /\ attempts' = [attempts EXCEPT ![p] = Request(p, 1)]
    /\ UNCHANGED <<number, maxreq, fs, run, chap, dl, session, works,
                   exceptions, writes, wfail, outer, fsRun1, run1ok,
                   prev>>

\* session.get obtains a connection of the pool.
Admit(p) ==
    /\ session = "open"
    /\ st[p] = "waiting"
    /\ HasFreeConnection
    /\ st' = [st EXCEPT ![p] = "inflight"]
    /\ UNCHANGED <<number, maxreq, fs, run, chap, dl, session, works,
                   exceptions, attempts, writes, wfail, outer, fsRun1, run1ok,
                   prev>>

\* except Exception as e: exceptions.append([url, e]); the loop goes on to the
\* next url, or ends and the task raises.  RecordedLast is a list that is
\* reset on each failure and keeps the last one only.
RecordedLast(p, err) == <<<<Sources(p)[Cur(p)], err>>>>
Recorded(p, err) == Append(exceptions[p], <<Sources(p)[Cur(p)], err>>)

Fallthrough(p, err) ==
    /\ exceptions' = [exceptions EXCEPT ![p] = Recorded(p, err)]
    /\ IF Cur(p) < NumMirrors
       THEN /\ st' = [st EXCEPT ![p] = "waiting"]
            /\ attempts' = [attempts EXCEPT
                               ![p] = @ \o Request(p, Cur(p) + 1)]
            /\ UNCHANGED outer
       ELSE /\ st' = [st EXCEPT ![p] = "Failed"]
            /\ UNCHANGED attempts
            /\ outer' = IF outer = NoExc
                        THEN [target |-> Target(chap, p),
                              exceptions |-> Recorded(p, err)]
                        ELSE outer

AllStarted == \A q \in Pages : st[q] # "created"

\* download__ raises: a failing status, a connection error, an empty body.
FetchError(p) ==
    /\ session = "open"
    /\ AllStarted
    /\ st[p] = "inflight"
    /\ \E a \in Answers(p, Cur(p)) :
           /\ Rejected(a)
           /\ Fallthrough(p, ErrorOf(a))
    /\ UNCHANGED <<number, maxreq, fs, run, chap, dl, session, works,
                   writes, wfail, fsRun1, run1ok,
                   prev>>

\* download__ returns the body and it is written to the target.
FetchWritten(p) ==
    /\ session = "open"
    /\ AllStarted
    /\ st[p] = "inflight"
    /\ \E a \in Returned(p) :
           fs' = [fs EXCEPT ![Target(chap, p)] = Page(Sources(p)[Cur(p)], a)]
    /\ writes' = [writes EXCEPT ![p] = @ + 1]
    /\ st' = [st EXCEPT ![p] = "Succeeded"]
    /\ UNCHANGED <<number, maxreq, run, chap, dl, session, works, exceptions,
                   attempts, wfail, outer, fsRun1, run1ok,
                   prev>>

\* download__ returns the body and open(to_path, 'wb') raises.
OpenFails(p) ==
    /\ session = "open"
    /\ AllStarted
    /\ st[p] = "inflight"
    /\ Returned(p) # {}
    /\ wfail < MaxWriteFailures
    /\ wfail' = wfail + 1
    /\ Fallthrough(p, "OSError")
    /\ UNCHANGED <<number, maxreq, fs, run, chap, dl, session, works,
                   writes, fsRun1, run1ok,
                   prev>>

\* download__ returns the body, the file is opened and f.write raises.
WriteFails(p) ==
    /\ session = "open"
    /\ AllStarted
    /\ st[p] = "inflight"
    /\ Returned(p) # {}
    /\ wfail < MaxWriteFailures
    /\ wfail' = wfail + 1
    /\ fs' = [fs EXCEPT ![Target(chap, p)] = Partial]
    /\ writes' = [writes EXCEPT ![p] = @ + 1]
    /\ Fallthrough(p, "OSError")
    /\ UNCHANGED <<number, maxreq, run, chap, dl, session, works,
                   fsRun1, run1ok,
                   prev>>

\* asyncio.gather without return_exceptions: its result is ready when every
\* task has returned.  AllSettled is gather with return_exceptions=True, its
\* result ready when every task has returned or raised.
AllSettled == \A p \in Pages : st[p] \in Terminal
AllReturned == \A p \in Pages : st[p] \in {"Skipped", "Succeeded"}

\* gather returns.  The session is closed and the loop over self.chapters
\* moves on.
GatherReturns ==
    /\ dl = "running"
    /\ AllReturned
    /\ dl' = "returned"
    /\ session' = "closed"
    /\ UNCHANGED <<number, maxreq, fs, run, chap, works, st, exceptions,
                   attempts, writes, wfail, outer, fsRun1, run1ok,
                   prev>>

\* gather raises the first exception of a task to _download, which raises it
\* through the async with of the session (closed) and out of download.
GatherRaises ==
    /\ dl = "running"
    /\ outer # NoExc
    /\ dl' = "raised"
    /\ session' = "closed"
    /\ UNCHANGED <<number, maxreq, fs, run, chap, works, st, exceptions,
                   attempts, writes, wfail, outer, fsRun1, run1ok,
                   prev>>

\* A task left running by gather finds the session closed: its request
\* raises (the connector closed its connection), and so does session.get for
\* every later url; each is caught and recorded, and the task raises.
ClosedErrors(p) ==
    [i \in 1..(NumMirrors - Len(exceptions[p])) |->
        <<Sources(p)[Len(exceptions[p]) + i], "SessionClosed">>]

LaterUrls(p) ==
    [i \in 1..(NumMirrors - Cur(p)) |-> Sources(p)[Cur(p) + i]]

OrphanFails(p) ==
    /\ session = "closed"
    /\ st[p] \in {"waiting", "inflight"}
    /\ exceptions' = [exceptions EXCEPT ![p] = @ \o ClosedErrors(p)]
    /\ attempts' = [attempts EXCEPT ![p] = @ \o LaterUrls(p)]
    /\ st' = [st EXCEPT ![p] = "Failed"]
    /\ UNCHANGED <<number, maxreq, fs, run, chap, dl, session, works,
                   writes, wfail, outer, fsRun1, run1ok,
                   prev>>

\* asyncio.run cancels the tasks that remain when download has raised.
Cancel(p) ==
    /\ dl = "raised"
    /\ st[p] \in {"waiting", "inflight"}
    /\ st' = [st EXCEPT ![p] = "Cancelled"]
    /\ UNCHANGED <<number, maxreq, fs, run, chap, dl, session, works,
                   exceptions, attempts, writes, wfail, outer, fsRun1, run1ok,
                   prev>>

\* The process is killed while a task writes its file: the file has been
\* opened and f.write(page) has not completed.  Every task ends with it.
KilledInWrite(p) ==
    /\ session = "open"
    /\ AllStarted
    /\ st[p] = "inflight"
    /\ Returned(p) # {}
    /\ fs' = [fs EXCEPT ![Target(chap, p)] = Partial]
    /\ writes' = [writes EXCEPT ![p] = @ + 1]
    /\ st' = [q \in Pages |-> IF q \in Active THEN "Killed" ELSE st[q]]
    /\ dl' = "killed"
    /\ session' = "closed"
    /\ UNCHANGED <<number, maxreq, run, chap, works, exceptions, attempts,
                   wfail, outer, fsRun1, run1ok, prev>>

\* The program has ended and is run again on the same catalog and directory.
RunEnded ==
    \/ chap = NumChapters /\ dl = "returned"
    \/ dl = "raised" /\ Active = {}
    \/ dl = "killed"

Rerun ==
    /\ run = "first"
    /\ RunEnded
    /\ run' = "second"
    /\ run1ok' = (dl = "returned")
    /\ fsRun1' = fs
    /\ prev' = [chap |-> chap, st |-> st, end |-> dl]
    /\ chap' = 0
    /\ dl' = "idle"
    /\ session' = "none"
    /\ works' = [p \in Pages |-> [m \in Mirrors |-> FALSE]]
    /\ st' = NoItems
    /\ exceptions' = [p \in Pages |-> <<>>]
    /\ attempts' = [p \in Pages |-> <<>>]
    /\ writes' = [p \in Pages |-> 0]
    /\ wfail' = 0
    /\ outer' = NoExc
    /\ UNCHANGED <<number, maxreq, fs>>

Next ==
    \/ DownloadChapter
    \/ \E p \in Pages : Start(p)
    \/ \E p \in Pages : Admit(p)
    \/ \E p \in Pages : FetchError(p)
    \/ \E p \in Pages : FetchWritten(p)
    \/ \E p \in Pages : OpenFails(p)
    \/ \E p \in Pages : WriteFails(p)
    \/ GatherReturns
    \/ GatherRaises
    \/ \E p \in Pages : OrphanFails(p)
    \/ \E p \in Pages : Cancel(p)
    \/ \E p \in Pages : KilledInWrite(p)
    \/ Rerun

Spec == Init /\ [][Next]_vars

\* One run in which the storage does not fail and the process is not killed,
\* under the scheduling of the event loop: a task that can take a step takes
\* it, a request that can have a connection gets one, every fetch is
\* answered, gather wakes _download, and the tasks that remain when download
\* has raised are ended.
NextFaultless ==
    \/ DownloadChapter
    \/ \E p \in Pages : Start(p)
    \/ \E p \in Pages : Admit(p)
    \/ \E p \in Pages : FetchError(p)
    \/ \E p \in Pages : FetchWritten(p)
    \/ GatherReturns
    \/ GatherRaises
    \/ \E p \in Pages : OrphanFails(p)
    \/ \E p \in Pages : Cancel(p)

Fairness ==
    /\ WF_vars(DownloadChapter)
    /\ WF_vars(GatherReturns)
    /\ WF_vars(GatherRaises)
    /\ \A p \in Pages :
           /\ WF_vars(Start(p))
           /\ WF_vars(Admit(p))
           /\ WF_vars(FetchError(p) \/ FetchWritten(p))
           /\ WF_vars(OrphanFails(p) \/ Cancel(p))

FairSpec == Init /\ [][NextFaultless]_vars /\ Fairness

(***************************************************************************)
(* The claims.                                                             *)
(***************************************************************************)
HasWorkingMirror(p) == \E m \in Mirrors : works[p][m]
FailedItems == {p \in Pages : st[p] = "Failed"}
Detail(p) == [target |-> Target(chap, p), exceptions |-> exceptions[p]]
Completed == dl \in {"returned", "raised"}

\* C1: when an item of the batch ends Failed, every sibling that has a
\* working mirror (and meets no storage failure) still ends Succeeded or
\* Skipped: it never ends Failed or Cancelled.
C1_SiblingsUnaffected ==
    \A p \in Pages :
        (/\ \E q \in Pages : q # p /\ st[q] = "Failed"
         /\ wfail = 0
         /\ HasWorkingMirror(p))
        => st[p] \notin {"Failed", "Cancelled"}

\* C2: _download has completed (returned or raised) only when every item of
\* the batch has reached a terminal outcome.
C2_CompletesWhenAllTerminal ==
    Completed => \A p \in Pages : st[p] \in Terminal

\* C3: when more than one item of the batch ended Failed, the failure that
\* _download raised identifies every failed item with its mirror failures.
C3_AllFailuresReported ==
    (dl = "raised" /\ Cardinality(FailedItems) > 1)
        => \A p \in FailedItems : outer = Detail(p)

\* C4, as claimed: _download raises iff an item ended Failed, and a batch
\* with an item whose every mirror fails never returns normally.
C4_RaisesIffMirrorsFail ==
    /\ dl = "returned" => FailedItems = {}
    /\ dl = "raised" => FailedItems # {}
    /\ dl = "returned" => \A p \in Pages : HasWorkingMirror(p)

\* C4, amended: _download raises iff an item ended Failed; a batch that
\* returned normally has only Skipped and Succeeded items, and each of its
\* items that was not skipped has a working mirror.
C4_RaisesIffItemFailed ==
    /\ dl = "returned" => AllReturned
    /\ dl = "raised" => FailedItems # {}
    /\ dl = "returned" =>
           \A p \in Pages : st[p] # "Skipped" => HasWorkingMirror(p)

C4_Witness ==
    /\ dl = "returned"
    /\ \E p, q \in Pages :
           /\ st[p] = "Skipped" /\ ~HasWorkingMirror(p)
           /\ st[q] = "Succeeded"

\* C5: the mirrors of an item are attempted in the order of its sources, a
\* mirror is attempted only after every earlier one failed to return a body
\* (none is attempted after one succeeded), and the target of a Succeeded
\* item holds the body of the lowest-index mirror that returned one.
ReturnedBody(p, i) ==
    \/ i <= Len(exceptions[p]) /\ exceptions[p][i][2] = "OSError"
    \/ i = Cur(p) /\ st[p] = "Succeeded"
FirstBody(p) ==
    CHOOSE i \in Mirrors :
        /\ ReturnedBody(p, i)
        /\ \A j \in Mirrors : ReturnedBody(p, j) => i <= j

C5_MirrorOrder ==
    \A p \in Pages :
        /\ Len(attempts[p]) <= NumMirrors
        /\ \A i \in 1..Len(attempts[p]) : attempts[p][i] = Sources(p)[i]
        /\ \A i \in 1..Len(attempts[p]) :
               \A j \in 1..(i - 1) : ~ReturnedBody(p, j)
        /\ st[p] = "Succeeded" =>
               fs[Target(chap, p)] = Body(Sources(p)[FirstBody(p)])

\* C6: the failure detail of an item whose every mirror failed has exactly
\* one (url, error) entry per mirror of the item, in the order of its
\* sources; so has the detail that gather raises.
OnePerMirror(urls, excs) ==
    /\ Len(excs) = NumMirrors
    /\ \A i \in Mirrors : excs[i][1] = urls[i]

C6_FailureDetail ==
    /\ \A p \in FailedItems : OnePerMirror(Sources(p), exceptions[p])
    /\ outer # NoExc =>
           \E p \in FailedItems :
               /\ outer.target = Target(chap, p)
               /\ OnePerMirror(Sources(p), outer.exceptions)

C6_Witness ==
    \E p \in FailedItems :
        /\ outer = Detail(p)
        /\ exceptions[p][1][2] = "HTTPError"
        /\ exceptions[p][NumMirrors][2] = "Empty"

\* C7: the number of fetches in flight never exceeds max_requests.
C7_ConcurrencyBound == Cardinality(InFlight) <= maxreq

C7_Witness ==
    /\ NumPages > maxreq
    /\ Cardinality(InFlight) = maxreq
    /\ \E p \in Pages : st[p] = "waiting"

\* C8: an item whose target exists when its task starts ends Skipped in that
\* step, with no fetch issued and no write; a Skipped item has issued no
\* fetch and made no write, and stays so for the rest of the batch.
C8_SkipGuard ==
    /\ [](\A p \in Pages :
            st[p] = "Skipped" =>
                attempts[p] = <<>> /\ writes[p] = 0 /\ exceptions[p] = <<>>)
    /\ [][\A p \in Pages :
            (st[p] = "created" /\ st'[p] # "created"
                /\ fs[Target(chap, p)] # Absent)
            => (st'[p] = "Skipped" /\ attempts'[p] = <<>> /\ fs' = fs)]_vars
    /\ [][\A p \in Pages :
            (st[p] = "Skipped" /\ chap' = chap)
            => (st'[p] = "Skipped"
                /\ fs'[Target(chap, p)] = fs[Target(chap, p)])]_vars

C8_Witness ==
    /\ dl = "raised"
    /\ \E p, q \in Pages :
           /\ st[p] = "Skipped" /\ ~HasWorkingMirror(p)
           /\ fs[Target(chap, p)] = Old
           /\ st[q] = "Failed"

C10_WrittenAtMostOnce ==
    \A p \in Pages :
        /\ writes[p] <= 1
        /\ st[p] = "Succeeded" => writes[p] = 1

\* C11: a response with an empty body is never written: no file holds an
\* empty body; an "Empty" failure is recorded for a mirror that gave no
\* content and the next mirror is requested (or, after the last mirror, the
\* item fails); the file of a Succeeded item holds the body of one of its
\* serving mirrors.
C11_EmptyNeverWritten ==
    /\ \A x \in Paths : fs[x] # EmptyFile
    /\ \A p \in Pages :
           /\ \A i \in 1..Len(exceptions[p]) :
                  exceptions[p][i][2] = "Empty" =>
                      /\ ~works[p][i]
                      /\ i < NumMirrors => Len(attempts[p]) > i
                      /\ i = NumMirrors => st[p] = "Failed"
           /\ st[p] = "Succeeded" =>
                  \E m \in Mirrors :
                      /\ works[p][m]
                      /\ fs[Target(chap, p)] = Body(Sources(p)[m])

C11_Witness ==
    \E p \in Pages :
        /\ st[p] = "Succeeded"
        /\ Len(exceptions[p]) = 1
        /\ exceptions[p][1][2] = "Empty"
        /\ fs[Target(chap, p)] = Body(Sources(p)[2])

\* C12: chapters are downloaded in the order of self.chapters, one batch
\* each: a batch is submitted only for the chapter after the last one, when
\* no batch is running and every item of the last batch has returned; every
\* fetch is of a url of the current chapter, and a file changes only while
\* the batch of the current chapter runs, at the target of one of its items
\* that is in flight.
BodiesOf(c) == {Body(Url(c, p, m)) : p \in Pages, m \in Mirrors}

C12_ChaptersInOrder ==
    /\ [](\A p \in Pages :
            \A i \in 1..Len(attempts[p]) : attempts[p][i][1] = chap)
    /\ [][(dl # "running" /\ dl' = "running") => chap' = chap + 1]_vars
    /\ [][chap' # chap =>
            \/ chap' = 0 /\ run' # run
            \/ /\ chap' = chap + 1
               /\ dl \in {"idle", "returned"}
               /\ \A p \in Pages : st[p] \in {"none", "Skipped", "Succeeded"}
               /\ \A p \in Pages : st'[p] = "created"]_vars
    /\ [][\A x \in Paths :
            fs'[x] # fs[x] =>
                /\ dl = "running"
                /\ \E p \in Pages : x = Target(chap, p) /\ st[p] = "inflight"
                /\ fs'[x] \in BodiesOf(chap) \cup {Partial}]_vars

C12_Witness ==
    /\ chap = 2
    /\ dl = "running"
    /\ InFlight # {}
    /\ \E x \in Paths : fs[x] \in BodiesOf(1)
    /\ \E x \in Paths : fs[x] \in BodiesOf(2)

\* C13: once the batch of a chapter has failed, this run of download begins
\* no other chapter, does not begin the chapter again, and changes no file.
C13_HaltsAtFailedChapter ==
    [][(dl = "raised" /\ run' = run) =>
          /\ dl' = "raised"
          /\ chap' = chap
          /\ session' = "closed"
          /\ fs' = fs]_vars

C13_Witness ==
    /\ dl = "raised"
    /\ chap = 2
    /\ Active = {}
    /\ \E x \in Paths : fs[x] \in BodiesOf(1)
    /\ \E x \in Paths : fs[x] \in BodiesOf(2)
    /\ \E p \in Pages : st[p] = "Failed"

\* C14: when the first run began with no file and download returned
\* normally, every page of every chapter has its own file, distinct from
\* the file of every other page, holding the body of one of its mirrors.
C14_AllChaptersMaterialized ==
    (/\ run = "first"
     /\ dl = "returned"
     /\ chap = NumChapters
     /\ \A x \in Paths : fs[x] # Old)
    => \A c \in Chapters, p \in Pages :
           /\ fs[Target(c, p)] \in {Body(Url(c, p, m)) : m \in Mirrors}
           /\ \A d \in Chapters, q \in Pages :
                  <<d, q>> # <<c, p>> => Target(d, q) # Target(c, p)

\* The batch that failed in the first run, run again in the second.
RerunOfFailedBatch ==
    /\ run = "second"
    /\ prev.end = "raised"
    /\ chap = prev.chap
Begun(p) == st[p] \notin {"none", "created"}
WriteFailed(p) ==
    \E i \in 1..Len(exceptions[p]) : exceptions[p][i][2] = "OSError"

\* C15, as claimed: an item that ended Failed has no file at its target,
\* and when the failed batch is run again a fetch is attempted for exactly
\* the items that had not ended Succeeded or Skipped.
C15_FailedItemsRefetched ==
    /\ \A p \in Pages :
           st[p] = "Failed" => fs[Target(chap, p)] = Absent
    /\ RerunOfFailedBatch =>
           \A p \in Pages :
               Begun(p) =>
                   (attempts[p] # <<>>
                       <=> prev.st[p] \notin {"Succeeded", "Skipped"})

\* C15, amended: an item that ended Failed has no file at its target unless
\* one of its writes failed after the file was opened, which leaves the file
\* cut short; when the failed batch is run again a fetch is attempted for
\* exactly the items that had not ended Succeeded or Skipped and whose
\* target holds no such file.
C15_MissingItemsRefetched ==
    /\ \A p \in Pages :
           st[p] = "Failed" =>
               /\ fs[Target(chap, p)] \in {Absent, Partial}
               /\ fs[Target(chap, p)] = Partial => WriteFailed(p)
    /\ RerunOfFailedBatch =>
           \A p \in Pages :
               Begun(p) =>
                   (attempts[p] # <<>>
                       <=> /\ prev.st[p] \notin {"Succeeded", "Skipped"}
                           /\ fsRun1[Target(chap, p)] # Partial)

C15_Witness ==
    /\ RerunOfFailedBatch
    /\ \E p, q \in Pages :
           /\ prev.st[p] = "Failed" /\ fsRun1[Target(chap, p)] = Partial
           /\ st[p] = "Skipped"
           /\ prev.st[q] = "Failed" /\ attempts[q] # <<>>

\* C18: a run killed during the write of a file leaves the file cut short
\* in place; in the next run every item with that target is skipped, no
\* fetch is issued for it and the file stays as it was left.
C18_PartialFileSkipped ==
    /\ dl = "killed" =>
           \E p \in Pages : st[p] = "Killed" /\ fs[Target(chap, p)] = Partial
    /\ (run = "second" /\ prev.end = "killed") =>
           \A x \in Paths :
               fsRun1[x] = Partial =>
                   /\ fs[x] = Partial
                   /\ \A p \in Pages :
                          (st[p] # "none" /\ Target(chap, p) = x) =>
                              /\ attempts[p] = <<>>
                              /\ st[p] \in {"created", "Skipped"}

C18_Witness ==
    /\ run = "second"
    /\ prev.end = "killed"
    /\ chap = prev.chap
    /\ dl = "returned"
    /\ \E p \in Pages :
           /\ prev.st[p] = "Killed"
           /\ fsRun1[Target(chap, p)] = Partial
           /\ fs[Target(chap, p)] = Partial
           /\ st[p] = "Skipped"
           /\ HasWorkingMirror(p)

\* C17: the session is open before any item issues a fetch and is closed
\* only when no item is waiting for or holding a connection.
C17_SessionOutlivesItems ==
    \A p \in Pages :
        /\ attempts[p] # <<>> => session # "none"
        /\ st[p] \in {"waiting", "inflight"} => session = "open"

\* C19: the fetches an item has issued and that have not been answered are
\* at most one, exactly one while the item waits for or holds a connection
\* and none once it is terminal; the fetches in flight are no more than the
\* items of the batch that are not terminal.
Outstanding(p) ==
    Len(attempts[p]) - Len(exceptions[p])
        - (IF st[p] = "Succeeded" THEN 1 ELSE 0)

C19_OneFetchPerItem ==
    /\ \A p \in Pages :
           /\ Outstanding(p) \in {0, 1}
           /\ st[p] \in {"waiting", "inflight"} => Outstanding(p) = 1
           /\ st[p] \in Terminal => Outstanding(p) = 0
    /\ Cardinality(InFlight)
           <= Cardinality({p \in Pages : st[p] \notin Terminal \cup {"none"}})

C19_Witness ==
    /\ Cardinality(InFlight) = 2
    /\ \E p \in InFlight : Len(attempts[p]) = 2 /\ Outstanding(p) = 1

\* C16: every request of an item is eventually given a connection, every
\* item that was created eventually reaches a terminal outcome, and a
\* _download that runs eventually returns or raises.
C16_EveryItemCompletes ==
    /\ \A p \in Pages : (st[p] = "waiting") ~> (st[p] = "inflight")
    /\ \A p \in Pages : (st[p] = "created") ~> (st[p] \in Terminal)
    /\ (dl = "running") ~> Completed

====
